---- MODULE Spec2Model ----
(***************************************************************************)
(* Request routing and dispatch layer of the fund-monitoring dashboard:    *)
(* web/router.py (Route, Router, create_default_router) together with the  *)
(* Response classes and BotHandler of web/handlers.py and                  *)
(* render_error_page of web/templates.py.                                  *)
(*                                                                         *)
(* Text is a sequence of atoms.  The characters the code inspects ("/",    *)
(* "?", "<", "&", digits, letters of a method name) are atoms of their     *)
(* own; any other atom stands for a non-empty run of characters that       *)
(* contains none of them.                                                  *)
(***************************************************************************)
EXTENDS Integers, Sequences, FiniteSets, TLC

VARIABLES routes, regLog, req, sent, wire, hookCalls, handlerCalls, errlog, failed,
          default_router, caller, created, returned, listed, env_text, config, submitted

vars == <<routes, regLog, req, sent, wire, hookCalls, handlerCalls, errlog, failed,
          default_router, caller, created, returned, listed, env_text, config, submitted>>

(***************************************************************************)
(* Bounds                                                                  *)
(***************************************************************************)
MaxRegs == 3
MaxMsgLen == 2
MaxCalls == 4
MaxLists == 1
MaxFields == 3
MaxEnvLines == 2

(***************************************************************************)
(* Text helpers                                                            *)
(***************************************************************************)
RECURSIVE SeqsUpTo(_, _)
SeqsUpTo(S, n) ==
  IF n = 0 THEN {<<>>}
  ELSE LET shorter == SeqsUpTo(S, n - 1)
       IN  shorter \cup {Append(s, c) : s \in shorter, c \in S}

StartsWith(s, p) == Len(s) >= Len(p) /\ SubSeq(s, 1, Len(p)) = p

Contains(s, p) == \E i \in 0..(Len(s) - Len(p)) : SubSeq(s, i + 1, i + Len(p)) = p

RECURSIVE LStrip(_, _)
LStrip(s, c) == IF s # <<>> /\ Head(s) = c THEN LStrip(Tail(s), c) ELSE s

RECURSIVE RStrip(_, _)
RStrip(s, c) ==
  IF s # <<>> /\ s[Len(s)] = c THEN RStrip(SubSeq(s, 1, Len(s) - 1), c) ELSE s

\* str.strip(c)
Strip(s, c) == RStrip(LStrip(s, c), c)

RECURSIVE SplitFrom(_, _, _)
SplitFrom(s, c, cur) ==
  IF s = <<>> THEN <<cur>>
  ELSE IF Head(s) = c THEN <<cur>> \o SplitFrom(Tail(s), c, <<>>)
  ELSE SplitFrom(Tail(s), c, Append(cur, Head(s)))

\* str.split(c): the segments between occurrences of c; "" splits to [""]
Split(s, c) == SplitFrom(s, c, <<>>)

RECURSIVE IndexOf(_, _, _)
IndexOf(s, c, i) ==
  IF i > Len(s) THEN 0 ELSE IF s[i] = c THEN i ELSE IndexOf(s, c, i + 1)

\* urlparse(target).path for an origin-form request target
UrlPath(target) ==
  LET q == IndexOf(target, "?", 1)
  IN  IF q = 0 THEN target ELSE SubSeq(target, 1, q - 1)

\* urlparse(target).query
UrlQuery(target) ==
  LET q == IndexOf(target, "?", 1)
  IN  IF q = 0 THEN <<>> ELSE SubSeq(target, q + 1, Len(target))

UpperChar(c) ==
  CASE c = "g" -> "G" [] c = "e" -> "E" [] c = "t" -> "T"
    [] c = "p" -> "P" [] c = "o" -> "O" [] c = "s" -> "S"
    [] c = "h" -> "H" [] c = "k" -> "K"
    [] OTHER -> c

\* an upper() that leaves its text as it is
UpperKeepsCasing(s) == s

\* str.upper()
Upper(s) == [i \in 1..Len(s) |-> UpperChar(s[i])]

LowerChar(c) ==
  CASE c = "C" -> "c" [] c = "L" -> "l" [] c = "X" -> "x" [] c = "S" -> "s"
    [] OTHER -> c

Lower(s) == [i \in 1..Len(s) |-> LowerChar(s[i])]

EscapeChar(c) ==
  CASE c = "&" -> <<"&", "a", "m", "p", ";">>
    [] c = "<" -> <<"&", "l", "t", ";">>
    [] c = ">" -> <<"&", "g", "t", ";">>
    [] OTHER -> <<c>>

\* html.escape(s)
RECURSIVE HtmlEscape(_)
HtmlEscape(s) == IF s = <<>> THEN <<>> ELSE EscapeChar(Head(s)) \o HtmlEscape(Tail(s))

(***************************************************************************)
(* Route and Router: registration and matching                            *)
(***************************************************************************)
GET == <<"G", "E", "T">>
POST == <<"P", "O", "S", "T">>

None == [none |-> TRUE]

\* a Route that records the root as its path
RouteAtRoot(path, method, handler, description) ==
  [path |-> <<"/">>, method |-> Upper(method), handler |-> handler,
   description |-> description]

\* Route.__init__
Route(path, method, handler, description) ==
  [path |-> path, method |-> Upper(method), handler |-> handler,
   description |-> description]

\* Router.__init__: self._routes = {}
EmptyRoutes == <<>>

\* register that keeps a route already stored for (path, method)
RegisterOpFirstWins(rt, path, method, handler, description) ==
  LET m == Upper(method)
      inner == IF path \in DOMAIN rt THEN rt[path] ELSE <<>>
      inner2 == [k \in DOMAIN inner \cup {m} |->
                   IF k \in DOMAIN inner THEN inner[k]
                   ELSE Route(path, m, handler, description)]
  IN  [q \in DOMAIN rt \cup {path} |-> IF q = path THEN inner2 ELSE rt[q]]

\* Router.register
RegisterOp(rt, path, method, handler, description) ==
  LET m == Upper(method)
      inner == IF path \in DOMAIN rt THEN rt[path] ELSE <<>>
      inner2 == [k \in DOMAIN inner \cup {m} |->
                   IF k = m THEN Route(path, m, handler, description) ELSE inner[k]]
  IN  [q \in DOMAIN rt \cup {path} |-> IF q = path THEN inner2 ELSE rt[q]]

\* a lookup that forgives a trailing slash
MatchTrailingSlash(rt, path, method) ==
  LET m == Upper(method)
      p == IF RStrip(path, "/") = <<>> THEN path ELSE RStrip(path, "/")
  IN  IF p \in DOMAIN rt /\ DOMAIN rt[p] # {}
      THEN (IF m \in DOMAIN rt[p] THEN rt[p][m] ELSE None)
      ELSE None

\* Router.match
Match(rt, path, method) ==
  LET m == Upper(method)
  IN  IF path \in DOMAIN rt /\ DOMAIN rt[path] # {}
      THEN (IF m \in DOMAIN rt[path] THEN rt[path][m] ELSE None)
      ELSE None

(***************************************************************************)
(* Request parsing helpers                                                 *)
(***************************************************************************)
Digits == {"0", "1", "2", "3", "4", "5", "6", "7", "8", "9"}

DigitVal(c) ==
  CASE c = "0" -> 0 [] c = "1" -> 1 [] c = "2" -> 2 [] c = "3" -> 3 [] c = "4" -> 4
    [] c = "5" -> 5 [] c = "6" -> 6 [] c = "7" -> 7 [] c = "8" -> 8 [] c = "9" -> 9

RECURSIVE DigitsVal(_)
DigitsVal(s) ==
  IF s = <<>> THEN 0 ELSE 10 * DigitsVal(SubSeq(s, 1, Len(s) - 1)) + DigitVal(s[Len(s)])

IntBody(s) == LET t == Strip(s, " ") IN IF t # <<>> /\ Head(t) \in {"-", "+"} THEN Tail(t) ELSE t

\* int(s) succeeds: optional blanks, optional sign, one or more digits
IsIntText(s) == IntBody(s) # <<>> /\ \A i \in 1..Len(IntBody(s)) : IntBody(s)[i] \in Digits

\* int(s) when it succeeds
IntOf(s) ==
  LET t == Strip(s, " ")
  IN  IF t # <<>> /\ Head(t) = "-" THEN 0 - DigitsVal(IntBody(s)) ELSE DigitsVal(IntBody(s))

ContentLengthName == <<"C", "ontent-", "L", "ength">>

RECURSIVE HeaderGet(_, _, _)
\* request_handler.headers.get(name, default): first field of that name, case-insensitively
HeaderGet(headers, name, default) ==
  IF headers = <<>> THEN default
  ELSE IF Lower(Head(headers).name) = Lower(name) THEN Head(headers).value
  ELSE HeaderGet(Tail(headers), name, default)

\* {key: value for key, value in request_handler.headers.items()}
HeadersDict(headers) ==
  LET names == {headers[i].name : i \in 1..Len(headers)}
      last(n) == CHOOSE i \in 1..Len(headers) :
                   /\ headers[i].name = n
                   /\ \A j \in 1..Len(headers) : headers[j].name = n => j <= i
  IN  [n \in names |-> headers[last(n)].value]

\* the value int() is applied to in dispatch_post
ContentLengthText(headers) ==
  LET v == HeaderGet(headers, ContentLengthName, <<"0">>)
  IN  IF v = <<>> THEN <<"0">> ELSE v

\* rfile.read(n) on a stream that ends after the given bytes
ReadBytes(stream, n) ==
  IF n < 0 \/ n >= Len(stream) THEN stream ELSE SubSeq(stream, 1, n)

\* bytes.decode("utf-8", errors="replace")
DecodeChar(b) == IF b = "\\xff" THEN "\\ufffd" ELSE b

Decode(bytes) == [i \in 1..Len(bytes) |-> DecodeChar(bytes[i])]

UnquoteChar(c) == IF c = "+" THEN " " ELSE c

Unquote(s) == [i \in 1..Len(s) |-> UnquoteChar(s[i])]

\* the (name, value) pairs parse_qs keeps, in order
QsPairs(qs) ==
  LET fields == Split(qs, "&")
      keep(f) == IndexOf(f, "=", 1) # 0 /\ IndexOf(f, "=", 1) < Len(f)
      name(f) == Unquote(SubSeq(f, 1, IndexOf(f, "=", 1) - 1))
      value(f) == Unquote(SubSeq(f, IndexOf(f, "=", 1) + 1, Len(f)))
  IN  [i \in 1..Len(fields) |->
         IF keep(fields[i]) THEN [keep |-> TRUE, name |-> name(fields[i]), value |-> value(fields[i])]
         ELSE [keep |-> FALSE, name |-> <<>>, value |-> <<>>]]

RECURSIVE ValuesOf(_, _)
ValuesOf(pairs, n) ==
  IF pairs = <<>> THEN <<>>
  ELSE (IF Head(pairs).keep /\ Head(pairs).name = n THEN <<Head(pairs).value>> ELSE <<>>)
       \o ValuesOf(Tail(pairs), n)

\* a parse that keeps one value per key, the last one
ParseQsLastWins(qs) ==
  LET pairs == QsPairs(qs)
      names == {pairs[i].name : i \in {j \in 1..Len(pairs) : pairs[j].keep}}
  IN  [n \in names |-> <<ValuesOf(pairs, n)[Len(ValuesOf(pairs, n))]>>]

\* urllib.parse.parse_qs(qs)
ParseQs(qs) ==
  LET pairs == QsPairs(qs)
      names == {pairs[i].name : i \in {j \in 1..Len(pairs) : pairs[j].keep}}
  IN  [n \in names |-> ValuesOf(pairs, n)]

(***************************************************************************)
(* Response, JsonResponse, HtmlResponse, render_error_page                 *)
(***************************************************************************)
HtmlType == "text/html; charset=utf-8"
JsonType == "application/json; charset=utf-8"

Response(body, status, contentType) ==
  [body |-> body, status |-> status, contentType |-> contentType]

HtmlResponse(body, status) == Response(body, status, HtmlType)

JsonEscapeChar(c) ==
  CASE c = "\"" -> <<"\\", "\"">> [] c = "\\" -> <<"\\", "\\">> [] OTHER -> <<c>>

RECURSIVE JsonString(_)
JsonString(s) == IF s = <<>> THEN <<>> ELSE JsonEscapeChar(Head(s)) \o JsonString(Tail(s))

\* json.dumps of {"error": message}, of {"success": false, "error": message} and of a
\* value a service returned
JsonDumps(data) ==
  IF data.kind = "error"
  THEN <<"{", "\"error\"", ":", "\"">> \o JsonString(data.message) \o <<"\"", "}">>
  ELSE IF data.kind = "failure"
  THEN <<"{", "\"success\"", ":", "false", ",", "\"error\"", ":", "\"">>
         \o JsonString(data.message) \o <<"\"", "}">>
  ELSE <<"json(", data.value, ")">>

JsonSerializable(data) == data.kind \in {"error", "failure"} \/ data.value # "unserializable"

JsonResponse(data, status) == Response(JsonDumps(data), status, JsonType)

ErrorData(message) == [kind |-> "error", message |-> message, value |-> ""]

ValueData(v) == [kind |-> "value", message |-> <<>>, value |-> v]

FailureData(message) == [kind |-> "failure", message |-> message, value |-> ""]

\* an error page that leaves the details out
render_error_page_no_details(status_code, message, details) ==
  <<"tpl:base", "tpl:h2", ToString(status_code), "tpl:/h2", "tpl:p">>
    \o HtmlEscape(message) \o <<"tpl:/p", "tpl:home", "tpl:/base">>

\* the atoms "tpl:..." stand for the fixed markup render_base and the f-strings add
render_error_page(status_code, message, details) ==
  LET details_html ==
        IF details # <<>>
        THEN <<"tpl:p-muted">> \o HtmlEscape(details) \o <<"tpl:/p">>
        ELSE <<>>
  IN  <<"tpl:base", "tpl:h2", ToString(status_code), "tpl:/h2", "tpl:p">>
        \o HtmlEscape(message) \o <<"tpl:/p">> \o details_html \o <<"tpl:home", "tpl:/base">>

NotFoundResponse(path) ==
  HtmlResponse(render_error_page(404, <<"not-found-title">>,
                                 <<"path ">> \o path \o <<" missing">>), 404)

ErrorResponse(message) ==
  HtmlResponse(render_error_page(500, <<"server-error-title">>, message), 500)

(***************************************************************************)
(* The default route table                                                 *)
(***************************************************************************)
ApiHandlers == {"handle_health", "handle_analysis", "handle_tasks", "handle_task_status"}

\* a startup routine that also registers a webhook route in the table
DefaultRegistrationsWithBotRoute ==
  << <<(<<"/">>), GET, "handle_index">>,
     <<(<<"/", "fund", "/", "detail">>), GET, "handle_fund_detail">>,
     <<(<<"/", "history">>), GET, "handle_history">>,
     <<(<<"/", "market_review">>), GET, "handle_market_review_list">>,
     <<(<<"/", "market_review", "/", "detail">>), GET, "handle_market_review_detail">>,
     <<(<<"/", "market_review", "/", "run">>), GET, "handle_run_market_review">>,
     <<(<<"/", "config">>), GET, "handle_config">>,
     <<(<<"/", "update">>), POST, "handle_update">>,
     <<(<<"/", "email", "/", "send_report">>), POST, "handle_send_email_report">>,
     <<(<<"/", "system", "/", "status">>), GET, "handle_system_status_page">>,
     <<(<<"/", "health">>), GET, "handle_health">>,
     <<(<<"/", "analysis">>), GET, "handle_analysis">>,
     <<(<<"/", "analysis", "/", "all">>), GET, "handle_run_all_analysis">>,
     <<(<<"/", "tasks">>), GET, "handle_tasks">>,
     <<(<<"/", "task">>), GET, "handle_task_status">>,
     <<(<<"/", "bot", "/", "tg">>), POST, "handle_webhook">> >>

\* the register calls of create_default_router, in order
DefaultRegistrations ==
  << <<(<<"/">>), GET, "handle_index">>,
     <<(<<"/", "fund", "/", "detail">>), GET, "handle_fund_detail">>,
     <<(<<"/", "history">>), GET, "handle_history">>,
     <<(<<"/", "market_review">>), GET, "handle_market_review_list">>,
     <<(<<"/", "market_review", "/", "detail">>), GET, "handle_market_review_detail">>,
     <<(<<"/", "market_review", "/", "run">>), GET, "handle_run_market_review">>,
     <<(<<"/", "config">>), GET, "handle_config">>,
     <<(<<"/", "update">>), POST, "handle_update">>,
     <<(<<"/", "email", "/", "send_report">>), POST, "handle_send_email_report">>,
     <<(<<"/", "system", "/", "status">>), GET, "handle_system_status_page">>,
     <<(<<"/", "health">>), GET, "handle_health">>,
     <<(<<"/", "analysis">>), GET, "handle_analysis">>,
     <<(<<"/", "analysis", "/", "all">>), GET, "handle_run_all_analysis">>,
     <<(<<"/", "tasks">>), GET, "handle_tasks">>,
     <<(<<"/", "task">>), GET, "handle_task_status">> >>

RECURSIVE RegisterAll(_, _)
RegisterAll(rt, regs) ==
  IF regs = <<>> THEN rt
  ELSE RegisterAll(RegisterOp(rt, Head(regs)[1], Head(regs)[2], Head(regs)[3], Head(regs)[3]),
                   Tail(regs))

create_default_router == RegisterAll(EmptyRoutes, DefaultRegistrations)

(***************************************************************************)
(* Requests in flight                                                      *)
(***************************************************************************)
Reqs == {"r1", "r2"}

NoResponse == Response(<<>>, 0, "")

Idle ==
  [pc |-> "idle", method |-> <<>>, target |-> <<>>, headers |-> <<>>, stream |-> <<>>,
   path |-> <<>>, body |-> <<>>, handler |-> "", arg |-> <<>>, platform |-> <<>>,
   pending |-> NoResponse, inTry |-> FALSE, exc |-> <<>>,
   handlerRaised |-> FALSE, hookRaised |-> FALSE, hookStatus |-> 0, hookValue |-> ""]

Header(name, value) == [name |-> name, value |-> value]

XSig == <<"X", "-", "S", "ig">>

HeaderLists ==
  { <<>>,
    <<Header(ContentLengthName, <<"3">>)>>,
    <<Header(ContentLengthName, <<"1">>)>>,
    <<Header(ContentLengthName, <<>>)>>,
    <<Header(ContentLengthName, <<"x">>)>>,
    <<Header(ContentLengthName, <<"-", "1">>)>>,
    <<Header(XSig, <<"s">>), Header(Lower(ContentLengthName), <<"3">>), Header(Lower(XSig), <<"t">>)>> }

Streams == { <<>>, <<"a", "=", "1">> }

Targets ==
  { <<"/">>, <<"?", "k", "=", "v">>, <<"/", "health">>, <<"/", "health", "?", "k", "=", "v">>,
    <<"/", "update">>, <<"/", "update", "?", "k", "=", "v">>, <<"/", "nope">>,
    <<"/", "tasks">>, <<"/", "tasks", "?", "limit", "=", "5">>,
    <<"/", "tasks", "?", "limit", "=", "x">>,
    <<"/", "task">>, <<"/", "task", "?", "id", "=", "7">>,
    <<"/", "analysis">>, <<"/", "analysis", "?", "code", "=", "t">>,
    <<"/", "analysis", "?", "code", "=", "1">>,
    <<"/", "fund", "/", "detail">>, <<"/", "market_review", "/", "detail">>,
    <<"/", "market_review", "/", "detail", "?", "id", "=", "7">>,
    <<"/", "bot">>, <<"/", "bot", "/">>,
    <<"/", "bot", "/", "tg">>, <<"/", "bot", "/", "tg", "/", "x">>,
    <<"/", "bot", "/", "/", "x">> }

GetMethods == {GET, <<"g", "e", "t">>}

MsgChars == {"Z", "<"}

Messages == SeqsUpTo(MsgChars, MaxMsgLen)

\* str(e) of the OSError a failing wfile.write raises
TransportError == <<"Broken pipe">>

\* str(e) of the ValueError int() raises
IntError(text) == <<"invalid literal for int() with base 10: ">> \o text

\* the members of http.HTTPStatus
ValidHTTPStatus ==
  (100..103) \cup (200..208) \cup {226} \cup (300..305) \cup {307, 308} \cup (400..418)
    \cup (421..426) \cup {428, 429, 431, 451} \cup (500..508) \cup {510, 511}

HookStatuses == {200, 403, 299}

HookValues == {"reply", "unserializable"}

\* what a handler of handlers.py returns when it does not raise
HandlerResponse(h) ==
  IF h \in ApiHandlers THEN JsonResponse(ValueData(h), 200)
  ELSE HtmlResponse(<<"page:", h>>, 200)

\* query.get(key, default)
QueryGet(query, key, default) == IF key \in DOMAIN query THEN query[key] ELSE default

UpperLetters ==
  {"A", "B", "C", "D", "E", "F", "G", "H", "I", "J", "K", "L", "M", "N", "O", "P", "Q",
   "R", "S", "T", "U", "V", "W", "X", "Y", "Z"}

AllIn(s, chars) == \A i \in 1..Len(s) : s[i] \in chars

\* the patterns with a suffix of up to three letters
ValidCodeLongSuffix(code) ==
  LET dot == IndexOf(code, ".", 1)
      stem == IF dot = 0 THEN code ELSE SubSeq(code, 1, dot - 1)
      suffix == IF dot = 0 THEN <<>> ELSE SubSeq(code, dot + 1, Len(code))
  IN  \/ Len(code) = 6 /\ AllIn(code, Digits)
      \/ Len(code) = 7 /\ SubSeq(code, 1, 2) = <<"H", "K">> /\ AllIn(SubSeq(code, 3, 7), Digits)
      \/ /\ Len(stem) \in 1..5 /\ AllIn(stem, UpperLetters)
         /\ dot # 0 => Len(suffix) \in 1..3 /\ AllIn(suffix, UpperLetters)

\* the three patterns handle_analysis accepts
ValidCode(code) ==
  LET dot == IndexOf(code, ".", 1)
      stem == IF dot = 0 THEN code ELSE SubSeq(code, 1, dot - 1)
      suffix == IF dot = 0 THEN <<>> ELSE SubSeq(code, dot + 1, Len(code))
  IN  \/ Len(code) = 6 /\ AllIn(code, Digits)
      \/ Len(code) = 7 /\ SubSeq(code, 1, 2) = <<"H", "K">> /\ AllIn(SubSeq(code, 3, 7), Digits)
      \/ /\ Len(stem) \in 1..5 /\ AllIn(stem, UpperLetters)
         /\ dot # 0 => Len(suffix) \in 1..2 /\ AllIn(suffix, UpperLetters)

\* the text handle_tasks hands to int()
LimitText(query) == QueryGet(query, <<"limit">>, << <<"2", "0">> >>)[1]

\* the text handle_market_review_detail hands to int()
RecordIdText(query) == Strip(QueryGet(query, <<"id">>, << <<>> >>)[1], " ")

\* the exception a handler raises while reading its input; <<>> when it raises none
InputError(h, query) ==
  IF h = "handle_tasks" /\ ~IsIntText(LimitText(query)) THEN IntError(LimitText(query))
  ELSE IF h = "handle_market_review_detail" /\ RecordIdText(query) # <<>>
          /\ ~IsIntText(RecordIdText(query))
  THEN IntError(RecordIdText(query))
  ELSE <<>>

\* code_list[0].strip().upper() of handle_analysis
AnalysisCode(query) == Upper(Strip(QueryGet(query, <<"code">>, << <<>> >>)[1], " "))

\* HtmlResponse(render_error_page(status_code, message, details)): the status is left
\* at its default, HTTPStatus.OK
HandlerErrorPage(status_code, message, details) ==
  HtmlResponse(render_error_page(status_code, message, details), 200)

\* the Response a handler returns without calling its service; None when it calls it
EarlyResponse(h, query) ==
  IF h = "handle_analysis"
  THEN LET code_list == QueryGet(query, <<"code">>, <<>>)
       IN  IF code_list = <<>> \/ Strip(code_list[1], " ") = <<>>
           THEN JsonResponse(FailureData(<<"missing code">>), 400)
           ELSE IF ~ValidCode(AnalysisCode(query))
           THEN JsonResponse(FailureData(<<"invalid code: ">> \o AnalysisCode(query)), 400)
           ELSE None
  ELSE IF h = "handle_task_status"
  THEN IF Strip(QueryGet(query, <<"id">>, << <<>> >>)[1], " ") = <<>>
       THEN JsonResponse(FailureData(<<"missing id">>), 400)
       ELSE None
  ELSE IF h = "handle_fund_detail"
  THEN IF Strip(QueryGet(query, <<"code">>, << <<>> >>)[1], " ") = <<>>
       THEN HandlerErrorPage(400, <<"missing fund code">>, <<"give a fund code">>)
       ELSE None
  ELSE IF h = "handle_market_review_detail"
  THEN IF RecordIdText(query) = <<>>
       THEN HandlerErrorPage(400, <<"missing record id">>, <<"give a record id">>)
       ELSE None
  ELSE None

\* the Responses a handler can return for a query
ReturnableResponses(h, query) ==
  IF EarlyResponse(h, query) # None THEN {EarlyResponse(h, query)}
  ELSE {HandlerResponse(h)}
         \cup (IF h = "handle_analysis"
               THEN {JsonResponse(FailureData(msg), 500) : msg \in Messages} ELSE {})
         \cup (IF h = "handle_task_status"
               THEN {JsonResponse(FailureData(<<"no such task">>), 404)} ELSE {})
         \cup (IF h = "handle_market_review_detail"
               THEN {HandlerErrorPage(404, <<"no such record">>, <<"record missing">>)}
               ELSE {})

(***************************************************************************)
(* PageHandler.handle_update                                               *)
(***************************************************************************)
\* env key, form field and key.lower() of each entry of `updates`, in dict order
UpdateKeys ==
  << <<"STOCK_LIST", "stock_list", "stock_list">>,
     <<"GEMINI_API_KEY", "gemini_key", "gemini_api_key">>,
     <<"SCHEDULE_TIME", "schedule_time", "schedule_time">>,
     <<"EMAIL_SENDER", "email_sender", "email_sender">>,
     <<"EMAIL_PASSWORD", "email_password", "email_password">>,
     <<"EMAIL_RECEIVERS", "email_receivers", "email_receivers">>,
     <<"TAVILY_API_KEYS", "tavily_key", "tavily_api_keys">>,
     <<"SERPAPI_API_KEYS", "serpapi_key", "serpapi_api_keys">> >>

\* updates[key] = form_data.get(field, [""])[0]
UpdateValue(form_data, i) == QueryGet(form_data, <<UpdateKeys[i][2]>>, << <<>> >>)[1]

\* a loop that skips empty values only
UpdateSkippedOnlyEmpty(value) == value = <<>>

\* if not value or "*" in value: continue
UpdateSkipped(value) == value = <<>> \/ Contains(value, <<"*">>)

RECURSIVE JoinLines(_)
JoinLines(lines) ==
  IF lines = <<>> THEN <<>>
  ELSE IF Len(lines) = 1 THEN lines[1]
  ELSE lines[1] \o <<"\n">> \o JoinLines(Tail(lines))

\* re.sub(f"^{key}=.*", f"{key}={value}", env_text, flags=re.MULTILINE), for a value
\* without backslash
SubLine(text, key, value) ==
  LET lines == Split(text, "\n")
  IN  JoinLines([i \in 1..Len(lines) |->
                   IF StartsWith(lines[i], <<key, "=">>) THEN <<key, "=">> \o value
                   ELSE lines[i]])

\* the body of the loop for one key: the env text
EnvStep(text, key, value) ==
  IF UpdateSkipped(value) THEN text
  ELSE IF Contains(text, <<key, "=">>) THEN SubLine(text, key, value)
  ELSE text \o <<"\n", key, "=">> \o value

\* [v.strip() for v in value.split(',')]
StripEach(value) ==
  LET parts == Split(value, ",") IN [i \in 1..Len(parts) |-> Strip(parts[i], " ")]

SetAttr(cfg, attr, value) == [a \in DOMAIN cfg \cup {attr} |-> IF a = attr THEN value ELSE cfg[a]]

\* the body of the loop for one key: the Config object
ConfigStep(cfg, i, value) ==
  LET key == UpdateKeys[i][1]
      attr_name == UpdateKeys[i][3]
  IN  IF UpdateSkipped(value) THEN cfg
      ELSE IF attr_name \in DOMAIN cfg THEN SetAttr(cfg, attr_name, [text |-> value])
      ELSE IF key = "GEMINI_API_KEY" THEN SetAttr(cfg, "gemini_api_key", [text |-> value])
      ELSE IF key = "TAVILY_API_KEYS" THEN SetAttr(cfg, "tavily_api_keys", [list |-> StripEach(value)])
      ELSE IF key = "SERPAPI_API_KEYS" THEN SetAttr(cfg, "serpapi_keys", [list |-> StripEach(value)])
      ELSE IF key = "EMAIL_RECEIVERS"
      THEN SetAttr(cfg, "email_receivers", [list |-> <<Strip(value, " ")>>])
      ELSE cfg

RECURSIVE EnvAfter(_, _, _)
\* env_text after the loop has run over entries i.. of `updates`
EnvAfter(text, form_data, i) ==
  IF i > Len(UpdateKeys) THEN text
  ELSE EnvAfter(EnvStep(text, UpdateKeys[i][1], UpdateValue(form_data, i)), form_data, i + 1)

RECURSIVE ConfigAfter(_, _, _)
\* the Config object after the loop has run over entries i.. of `updates`
ConfigAfter(cfg, form_data, i) ==
  IF i > Len(UpdateKeys) THEN cfg
  ELSE ConfigAfter(ConfigStep(cfg, i, UpdateValue(form_data, i)), form_data, i + 1)

\* handlers out of which no failure of a service call propagates
\* the calls of analysis_service.submit_analysis after request r's handler has run:
\* handle_analysis calls it once, with the code, when it has not returned early
Submit(r) ==
  IF req[r].handler = "handle_analysis" /\ EarlyResponse(req[r].handler, req[r].arg) = None
  THEN [submitted EXCEPT ![r] = Append(@, AnalysisCode(req[r].arg))]
  ELSE submitted

NonRaisingHandlers == {"handle_health", "handle_analysis"}

\* handle_webhook's try block raises: the service raised, HTTPStatus() rejected
\* the status code, or json.dumps rejected the body
BotHandlerFails(raised, status, value) ==
  raised \/ status \notin ValidHTTPStatus \/ ~JsonSerializable(ValueData(value))

\* str(e) of what the try block raised
BotHandlerMessage(raised, msg, status, value) ==
  IF raised THEN msg
  ELSE IF status \notin ValidHTTPStatus THEN <<ToString(status), " is not a valid HTTPStatus">>
  ELSE <<"Object is not JSON serializable">>

\* BotHandler.handle_webhook, given what bot.handler.handle_webhook did
BotHandlerResponse(raised, msg, status, value) ==
  IF BotHandlerFails(raised, status, value)
  THEN JsonResponse(ErrorData(BotHandlerMessage(raised, msg, status, value)), 500)
  ELSE JsonResponse(ValueData(value), status)

\* a log entry that leaves the path out
LogEntryNoPath(tag, method, path, message) ==
  [tag |-> tag, method |-> method, path |-> <<>>, message |-> message]

\* logger.error(...): the prefix written and the values formatted into the entry
LogEntry(tag, method, path, message) ==
  [tag |-> tag, method |-> method, path |-> path, message |-> message]

Event(ev, num, text, bytes) == [ev |-> ev, num |-> num, text |-> text, bytes |-> bytes]

\* a send that emits Content-Length ahead of Content-Type
SendHeadLengthFirst(resp) ==
  << Event("status", resp.status, "", <<>>),
     Event("Content-Length", Len(resp.body), "", <<>>),
     Event("Content-Type", 0, resp.contentType, <<>>),
     Event("end_headers", 0, "", <<>>) >>

\* what Response.send hands to the transport before wfile.write
SendHead(resp) ==
  << Event("status", resp.status, "", <<>>),
     Event("Content-Type", 0, resp.contentType, <<>>),
     Event("Content-Length", Len(resp.body), "", <<>>),
     Event("end_headers", 0, "", <<>>) >>

(***************************************************************************)
(* Registration (Router.register)                                          *)
(***************************************************************************)
RegPaths == { <<"/">>, <<"/", "a">> }

RegMethods == {GET, <<"g", "e", "t">>, POST}

RegHandlers == {"h1", "h2"}

SingletonUnchanged == UNCHANGED <<default_router, caller, created, returned>>

ServeUnchanged ==
  /\ UNCHANGED <<req, sent, wire, hookCalls, handlerCalls, errlog, failed>>
  /\ SingletonUnchanged
  /\ UNCHANGED listed
  /\ UNCHANGED <<env_text, config>>
  /\ UNCHANGED submitted

Register(path, method, handler) ==
  /\ Len(regLog) < MaxRegs
  /\ routes' = RegisterOp(routes, path, method, handler, handler)
  /\ regLog' = Append(regLog, [path |-> path, method |-> method, handler |-> handler])
  /\ ServeUnchanged

(***************************************************************************)
(* Serving: Router.dispatch, Router.dispatch_post, _dispatch_bot_webhook   *)
(***************************************************************************)
RouterUnchanged ==
  UNCHANGED <<routes, regLog>> /\ SingletonUnchanged /\ UNCHANGED listed /\ UNCHANGED <<env_text, config>>

TableUnchanged == RouterUnchanged /\ UNCHANGED submitted

\* the server hands a GET request to Router.dispatch
ReceiveGet(r, method, target) ==
  /\ req[r].pc = "idle"
  /\ req' = [req EXCEPT ![r] = [Idle EXCEPT !.pc = "dispatch", !.method = method,
                                            !.target = target]]
  /\ UNCHANGED <<sent, wire, hookCalls, handlerCalls, errlog, failed>>
  /\ TableUnchanged

\* the server hands a POST request to Router.dispatch_post
ReceivePost(r, target, headers, stream) ==
  /\ req[r].pc = "idle"
  /\ req' = [req EXCEPT ![r] = [Idle EXCEPT !.pc = "dispatch_post", !.method = POST,
                                            !.target = target, !.headers = headers,
                                            !.stream = stream]]
  /\ UNCHANGED <<sent, wire, hookCalls, handlerCalls, errlog, failed>>
  /\ TableUnchanged

\* a dispatch that looks the whole request target up, query string included
DispatchWholeTarget(r) ==
  /\ req[r].pc = "dispatch"
  /\ LET path == IF req[r].target = <<>> THEN <<"/">> ELSE req[r].target
         query == ParseQs(UrlQuery(req[r].target))
         route == Match(routes, path, req[r].method)
     IN  IF route = None
         THEN req' = [req EXCEPT ![r].path = path, ![r].pc = "send",
                                 ![r].pending = NotFoundResponse(path), ![r].inTry = FALSE]
         ELSE req' = [req EXCEPT ![r].path = path, ![r].pc = "handler",
                                 ![r].handler = route.handler, ![r].arg = query]
  /\ UNCHANGED <<sent, wire, hookCalls, handlerCalls, errlog, failed>>
  /\ TableUnchanged

\* Router.dispatch up to the handler call
Dispatch(r) ==
  /\ req[r].pc = "dispatch"
  /\ LET parsedPath == UrlPath(req[r].target)
         path == IF parsedPath = <<>> THEN <<"/">> ELSE parsedPath
         query == ParseQs(UrlQuery(req[r].target))
         route == Match(routes, path, req[r].method)
     IN  IF route = None
         THEN req' = [req EXCEPT ![r].path = path, ![r].pc = "send",
                                 ![r].pending = NotFoundResponse(path), ![r].inTry = FALSE]
         ELSE req' = [req EXCEPT ![r].path = path, ![r].pc = "handler",
                                 ![r].handler = route.handler, ![r].arg = query]
  /\ UNCHANGED <<sent, wire, hookCalls, handlerCalls, errlog, failed>>
  /\ TableUnchanged

\* Router.dispatch_post up to the handler call, _dispatch_bot_webhook up to the service call
DispatchPost(r) ==
  /\ req[r].pc = "dispatch_post"
  /\ LET path == UrlPath(req[r].target)
         text == ContentLengthText(req[r].headers)
         raw_body_bytes == ReadBytes(req[r].stream, IntOf(text))
         parts == Split(Strip(path, "/"), "/")
         form_data == ParseQs(Decode(raw_body_bytes))
         route == Match(routes, path, POST)
     IN  IF ~IsIntText(text)
         THEN req' = [req EXCEPT ![r].path = path, ![r].pc = "raised", ![r].exc = IntError(text)]
         ELSE IF StartsWith(path, <<"/", "bot", "/">>)
         THEN IF Len(parts) < 2
              THEN req' = [req EXCEPT ![r].path = path, ![r].body = raw_body_bytes,
                                      ![r].pc = "send", ![r].pending = NotFoundResponse(path),
                                      ![r].inTry = FALSE]
              ELSE req' = [req EXCEPT ![r].path = path, ![r].body = raw_body_bytes,
                                      ![r].pc = "webhook", ![r].platform = parts[2]]
         ELSE IF route = None
         THEN req' = [req EXCEPT ![r].path = path, ![r].body = raw_body_bytes,
                                 ![r].pc = "send", ![r].pending = NotFoundResponse(path),
                                 ![r].inTry = FALSE]
         ELSE req' = [req EXCEPT ![r].path = path, ![r].body = raw_body_bytes,
                                 ![r].pc = "handler", ![r].handler = route.handler,
                                 ![r].arg = form_data]
  /\ UNCHANGED <<sent, wire, hookCalls, handlerCalls, errlog, failed>>
  /\ TableUnchanged

FailTag(r) == IF req[r].method = POST THEN "POST" ELSE "GET"

\* a dispatch that invokes the handler a second time before sending
HandlerReturnsAfterRetry(r) ==
  /\ req[r].pc = "handler"
  /\ req[r].handler # "handle_update"
  /\ InputError(req[r].handler, req[r].arg) = <<>>
  /\ handlerCalls' = [handlerCalls EXCEPT ![r] =
                        Append(Append(@, [handler |-> req[r].handler, arg |-> req[r].arg]),
                               [handler |-> req[r].handler, arg |-> req[r].arg])]
  /\ req' = [req EXCEPT ![r].pc = "send",
                        ![r].pending = IF EarlyResponse(req[r].handler, req[r].arg) # None
                                       THEN EarlyResponse(req[r].handler, req[r].arg)
                                       ELSE HandlerResponse(req[r].handler),
                        ![r].inTry = TRUE]
  /\ submitted' = Submit(r)
  /\ UNCHANGED <<sent, wire, hookCalls, errlog, failed>>
  /\ RouterUnchanged

\* route.handler(...) returns a Response
HandlerReturns(r) ==
  /\ req[r].pc = "handler"
  /\ req[r].handler # "handle_update"
  /\ InputError(req[r].handler, req[r].arg) = <<>>
  /\ handlerCalls' = [handlerCalls EXCEPT ![r] = Append(@, [handler |-> req[r].handler, arg |-> req[r].arg])]
  /\ req' = [req EXCEPT ![r].pc = "send",
                        ![r].pending = IF EarlyResponse(req[r].handler, req[r].arg) # None
                                       THEN EarlyResponse(req[r].handler, req[r].arg)
                                       ELSE HandlerResponse(req[r].handler),
                        ![r].inTry = TRUE]
  /\ submitted' = Submit(r)
  /\ UNCHANGED <<sent, wire, hookCalls, errlog, failed>>
  /\ RouterUnchanged

\* a failing handler that also drops its route from the shared table
HandlerRaisesDropsRoute(r, msg) ==
  /\ req[r].pc = "handler"
  /\ req[r].handler \notin NonRaisingHandlers
  /\ InputError(req[r].handler, req[r].arg) = <<>>
  /\ EarlyResponse(req[r].handler, req[r].arg) = None
  /\ handlerCalls' = [handlerCalls EXCEPT ![r] = Append(@, [handler |-> req[r].handler, arg |-> req[r].arg])]
  /\ errlog' = [errlog EXCEPT ![r] = Append(@, LogEntry(FailTag(r), req[r].method, req[r].path, msg))]
  /\ req' = [req EXCEPT ![r].pc = "send", ![r].pending = ErrorResponse(msg),
                        ![r].inTry = FALSE, ![r].exc = msg, ![r].handlerRaised = TRUE]
  /\ routes' = [q \in DOMAIN routes \ {req[r].path} |-> routes[q]]
  /\ UNCHANGED <<sent, wire, hookCalls, failed, regLog, listed, env_text, config, submitted>>
  /\ SingletonUnchanged

\* route.handler(...) raises; the except clause logs and calls _send_error
HandlerRaises(r, msg) ==
  /\ req[r].pc = "handler"
  /\ req[r].handler \notin NonRaisingHandlers
  /\ InputError(req[r].handler, req[r].arg) = <<>>
  /\ EarlyResponse(req[r].handler, req[r].arg) = None
  /\ handlerCalls' = [handlerCalls EXCEPT ![r] = Append(@, [handler |-> req[r].handler, arg |-> req[r].arg])]
  /\ errlog' = [errlog EXCEPT ![r] = Append(@, LogEntry(FailTag(r), req[r].method, req[r].path, msg))]
  /\ req' = [req EXCEPT ![r].pc = "send", ![r].pending = ErrorResponse(msg),
                        ![r].inTry = FALSE, ![r].exc = msg, ![r].handlerRaised = TRUE]
  /\ UNCHANGED <<sent, wire, hookCalls, failed>>
  /\ TableUnchanged

\* handle_update returns: the env text is rewritten and written back, the Config object
\* updated, the config page returned
HandleUpdate(r) ==
  /\ req[r].pc = "handler"
  /\ req[r].handler = "handle_update"
  /\ handlerCalls' = [handlerCalls EXCEPT ![r] = Append(@, [handler |-> req[r].handler, arg |-> req[r].arg])]
  /\ env_text' = EnvAfter(env_text, req[r].arg, 1)
  /\ config' = ConfigAfter(config, req[r].arg, 1)
  /\ req' = [req EXCEPT ![r].pc = "send", ![r].pending = HandlerResponse(req[r].handler),
                        ![r].inTry = TRUE]
  /\ UNCHANGED <<routes, regLog, sent, wire, hookCalls, errlog, failed>>
  /\ SingletonUnchanged
  /\ UNCHANGED listed
  /\ UNCHANGED submitted

\* the handler raises while reading its input (int() of a non-numeric limit); the
\* except clause logs and calls _send_error
HandlerInputRaises(r) ==
  /\ req[r].pc = "handler"
  /\ InputError(req[r].handler, req[r].arg) # <<>>
  /\ handlerCalls' = [handlerCalls EXCEPT ![r] = Append(@, [handler |-> req[r].handler, arg |-> req[r].arg])]
  /\ LET msg == InputError(req[r].handler, req[r].arg)
     IN  /\ errlog' = [errlog EXCEPT ![r] = Append(@, LogEntry(FailTag(r), req[r].method,
                                                                req[r].path, msg))]
         /\ req' = [req EXCEPT ![r].pc = "send", ![r].pending = ErrorResponse(msg),
                               ![r].inTry = FALSE, ![r].exc = msg, ![r].handlerRaised = TRUE]
  /\ UNCHANGED <<sent, wire, hookCalls, failed>>
  /\ TableUnchanged

\* handle_analysis: submit_analysis raises, the handler logs and returns JSON 500
ServiceFailureCaught(r, msg) ==
  /\ req[r].pc = "handler"
  /\ req[r].handler = "handle_analysis"
  /\ EarlyResponse(req[r].handler, req[r].arg) = None
  /\ handlerCalls' = [handlerCalls EXCEPT ![r] = Append(@, [handler |-> req[r].handler, arg |-> req[r].arg])]
  /\ errlog' = [errlog EXCEPT ![r] = Append(@, LogEntry("ApiHandler", <<>>, <<>>, msg))]
  /\ req' = [req EXCEPT ![r].pc = "send", ![r].pending = JsonResponse(FailureData(msg), 500),
                        ![r].inTry = TRUE]
  /\ submitted' = Submit(r)
  /\ UNCHANGED <<sent, wire, hookCalls, failed>>
  /\ RouterUnchanged

\* handle_task_status: get_task_status returns None, the handler returns JSON 404
TaskNotFound(r) ==
  /\ req[r].pc = "handler"
  /\ req[r].handler = "handle_task_status"
  /\ EarlyResponse(req[r].handler, req[r].arg) = None
  /\ handlerCalls' = [handlerCalls EXCEPT ![r] = Append(@, [handler |-> req[r].handler, arg |-> req[r].arg])]
  /\ req' = [req EXCEPT ![r].pc = "send",
                        ![r].pending = JsonResponse(FailureData(<<"no such task">>), 404),
                        ![r].inTry = TRUE]
  /\ UNCHANGED <<sent, wire, hookCalls, errlog, failed>>
  /\ TableUnchanged

\* handle_market_review_detail: no record has that id, the handler returns its 404 page
RecordNotFound(r) ==
  /\ req[r].pc = "handler"
  /\ req[r].handler = "handle_market_review_detail"
  /\ InputError(req[r].handler, req[r].arg) = <<>>
  /\ EarlyResponse(req[r].handler, req[r].arg) = None
  /\ handlerCalls' = [handlerCalls EXCEPT ![r] = Append(@, [handler |-> req[r].handler, arg |-> req[r].arg])]
  /\ req' = [req EXCEPT ![r].pc = "send",
                        ![r].pending = HandlerErrorPage(404, <<"no such record">>,
                                                        <<"record missing">>),
                        ![r].inTry = TRUE]
  /\ UNCHANGED <<sent, wire, hookCalls, errlog, failed>>
  /\ TableUnchanged

HookCall(r) ==
  [platform |-> req[r].platform, headers |-> HeadersDict(req[r].headers), body |-> req[r].body]

\* get_bot_handler().handle_webhook(...): the webhook service returns a result
WebhookReturns(r, status, value) ==
  /\ req[r].pc = "webhook"
  /\ hookCalls' = [hookCalls EXCEPT ![r] = Append(@, HookCall(r))]
  /\ LET resp == BotHandlerResponse(FALSE, <<>>, status, value)
     IN  /\ req' = [req EXCEPT ![r].pc = "send", ![r].pending = resp, ![r].inTry = TRUE,
                               ![r].handler = "handle_webhook",
                               ![r].hookStatus = status, ![r].hookValue = value]
         /\ errlog' = IF BotHandlerFails(FALSE, status, value)
                      THEN [errlog EXCEPT ![r] = Append(@, LogEntry("BotHandler", <<>>, <<>>,
                                                   BotHandlerMessage(FALSE, <<>>, status, value)))]
                      ELSE errlog
  /\ UNCHANGED <<sent, wire, handlerCalls, failed>>
  /\ TableUnchanged

\* get_bot_handler().handle_webhook(...): the webhook service raises
WebhookRaises(r, msg) ==
  /\ req[r].pc = "webhook"
  /\ hookCalls' = [hookCalls EXCEPT ![r] = Append(@, HookCall(r))]
  /\ req' = [req EXCEPT ![r].pc = "send", ![r].pending = BotHandlerResponse(TRUE, msg, 0, ""),
                        ![r].inTry = TRUE, ![r].handler = "handle_webhook",
                        ![r].hookRaised = TRUE, ![r].exc = msg]
  /\ errlog' = [errlog EXCEPT ![r] = Append(@, LogEntry("BotHandler", <<>>, <<>>, msg))]
  /\ UNCHANGED <<sent, wire, handlerCalls, failed>>
  /\ TableUnchanged

\* Response.send completes
SendOk(r) ==
  /\ req[r].pc = "send"
  /\ sent' = [sent EXCEPT ![r] = Append(@, req[r].pending)]
  /\ wire' = [wire EXCEPT ![r] = @ \o SendHead(req[r].pending)
                                   \o <<Event("body", 0, "", req[r].pending.body)>>]
  /\ req' = [req EXCEPT ![r].pc = "done"]
  /\ UNCHANGED <<hookCalls, handlerCalls, errlog, failed>>
  /\ TableUnchanged

ErrTag(r) == IF req[r].handler = "handle_webhook" THEN "Bot" ELSE FailTag(r)

\* Response.send: wfile.write raises; inside the try the except clause logs and calls
\* _send_error, outside it the exception leaves dispatch
SendFail(r) ==
  /\ req[r].pc = "send"
  /\ sent' = [sent EXCEPT ![r] = Append(@, req[r].pending)]
  /\ wire' = [wire EXCEPT ![r] = @ \o SendHead(req[r].pending)]
  /\ IF req[r].inTry
     THEN /\ req' = [req EXCEPT ![r].pending = ErrorResponse(TransportError),
                                ![r].inTry = FALSE, ![r].exc = TransportError]
          /\ errlog' = [errlog EXCEPT ![r] = Append(@, LogEntry(ErrTag(r), req[r].method,
                                                                 req[r].path, TransportError))]
     ELSE /\ req' = [req EXCEPT ![r].pc = "raised", ![r].exc = TransportError]
          /\ UNCHANGED errlog
  /\ UNCHANGED <<hookCalls, handlerCalls, failed>>
  /\ TableUnchanged

\* dispatch has returned or raised; the request handler object is discarded
Return(r) ==
  /\ req[r].pc \in {"done", "raised"}
  /\ failed' = (failed \/ req[r].handlerRaised)
  /\ req' = [req EXCEPT ![r] = Idle]
  /\ sent' = [sent EXCEPT ![r] = <<>>]
  /\ wire' = [wire EXCEPT ![r] = <<>>]
  /\ hookCalls' = [hookCalls EXCEPT ![r] = <<>>]
  /\ handlerCalls' = [handlerCalls EXCEPT ![r] = <<>>]
  /\ errlog' = [errlog EXCEPT ![r] = <<>>]
  /\ submitted' = [submitted EXCEPT ![r] = <<>>]
  /\ RouterUnchanged

(***************************************************************************)
(* Specifications                                                          *)
(***************************************************************************)
\* a router with table rt, nothing in flight, env file text and Config object as given
InitServingWith(rt, text, cfg) ==
  /\ routes = rt
  /\ regLog = <<>>
  /\ req = [r \in Reqs |-> Idle]
  /\ sent = [r \in Reqs |-> <<>>]
  /\ wire = [r \in Reqs |-> <<>>]
  /\ hookCalls = [r \in Reqs |-> <<>>]
  /\ handlerCalls = [r \in Reqs |-> <<>>]
  /\ errlog = [r \in Reqs |-> <<>>]
  /\ failed = FALSE
  /\ listed = <<>>
  /\ env_text = text
  /\ config = cfg
  /\ submitted = [r \in Reqs |-> <<>>]

InitServing(rt) == InitServingWith(rt, <<>>, <<>>)

Threads == {"t1", "t2"}

\* no Router instance: the value None of _default_router
NoRouter == 0

NotCalling == [pc |-> "idle", router |-> NoRouter]

\* the module state of router.py before (made = 0) or after get_router has run
InitSingleton(made) ==
  /\ default_router = made
  /\ created = made
  /\ caller = [t \in Threads |-> NotCalling]
  /\ returned = <<>>

\* a Router just constructed; register calls follow
InitReg == InitServing(EmptyRoutes) /\ InitSingleton(0)

NextReg == \E p \in RegPaths, m \in RegMethods, h \in RegHandlers : Register(p, m, h)

SpecReg == InitReg /\ [][NextReg]_vars

\* letter-casings of the method names callers pass to register
MethodCasings ==
  { GET, <<"g", "e", "t">>, <<"g", "E", "T">>, POST, <<"P", "o", "S", "t">> }

\* a Router just constructed; register calls with methods in any casing follow
NextCasing == \E p \in RegPaths, m \in MethodCasings, h \in RegHandlers : Register(p, m, h)

SpecCasing == InitReg /\ [][NextCasing]_vars

(***************************************************************************)
(* Router.list_routes                                                      *)
(***************************************************************************)
\* code point of a character of a path or method name
Ord(c) ==
  CASE c = "/" -> 47 [] c = "E" -> 69 [] c = "G" -> 71 [] c = "O" -> 79 [] c = "P" -> 80
    [] c = "S" -> 83 [] c = "T" -> 84 [] c = "a" -> 97 [] c = "b" -> 98

RECURSIVE StrLess(_, _)
\* s < t on str
StrLess(s, t) ==
  IF t = <<>> THEN FALSE
  ELSE IF s = <<>> THEN TRUE
  ELSE IF Head(s) = Head(t) THEN StrLess(Tail(s), Tail(t))
  ELSE Ord(Head(s)) < Ord(Head(t))

\* a sort key that puts the method first
ListKeyMethodFirst(x) == <<x[1], x[2]>>

\* key=lambda x: (x[1], x[0]) on a (method, path, description) triple
ListKey(x) == <<x[2], x[1]>>

\* k1 <= k2 on tuples of two str
KeyLeq(k1, k2) == StrLess(k1[1], k2[1]) \/ (k1[1] = k2[1] /\ ~StrLess(k2[2], k1[2]))

RECURSIVE SortedByKey(_)
\* sorted(routes, key=...) of triples whose keys differ pairwise
SortedByKey(S) ==
  IF S = {} THEN <<>>
  ELSE LET x == CHOOSE x \in S : \A y \in S : KeyLeq(ListKey(x), ListKey(y))
       IN  <<x>> \o SortedByKey(S \ {x})

list_routes(rt) ==
  SortedByKey(UNION {{<<m, q, rt[q][m].description>> : m \in DOMAIN rt[q]} : q \in DOMAIN rt})

\* a caller obtains router.list_routes()
ListRoutes ==
  /\ Len(listed) < MaxLists
  /\ listed' = Append(listed, list_routes(routes))
  /\ UNCHANGED <<routes, regLog, req, sent, wire, hookCalls, handlerCalls, errlog, failed>>
  /\ UNCHANGED submitted
  /\ SingletonUnchanged
  /\ UNCHANGED <<env_text, config>>

ListPaths == RegPaths \cup { <<"/", "b">> }

InitList == InitServing(EmptyRoutes) /\ InitSingleton(0)

NextList ==
  \/ \E q \in ListPaths, m \in RegMethods, h \in RegHandlers : Register(q, m, h)
  \/ ListRoutes

SpecList == InitList /\ [][NextList]_vars

\* the router create_default_router returned, serving one request at a time
Init == InitServing(create_default_router) /\ InitSingleton(1)

Step(r) ==
  \/ Dispatch(r)
  \/ DispatchPost(r)
  \/ HandlerReturns(r)
  \/ HandleUpdate(r)
  \/ \E msg \in Messages : HandlerRaises(r, msg)
  \/ HandlerInputRaises(r)
  \/ \E msg \in Messages : ServiceFailureCaught(r, msg)
  \/ TaskNotFound(r)
  \/ RecordNotFound(r)
  \/ \E s \in HookStatuses, v \in HookValues : WebhookReturns(r, s, v)
  \/ \E msg \in Messages : WebhookRaises(r, msg)
  \/ SendOk(r)
  \/ SendFail(r)
  \/ Return(r)

Next ==
  \/ \E m \in GetMethods, t \in Targets : ReceiveGet("r1", m, t)
  \/ \E t \in Targets, h \in HeaderLists, s \in Streams : ReceivePost("r1", t, h, s)
  \/ Step("r1")

Spec == Init /\ [][Next]_vars

\* the default router serving GET query strings and POST form bodies made of up to
\* MaxFields fields
QueryFields ==
  { <<"k", "=", "1">>, <<"k", "=", "2">>, <<"j", "=", "1">>, <<"k", "=">>, <<"k">>,
    <<"k", "=", "1", "=", "2">>, <<"k", "+", "=", "+", "1">> }

RECURSIVE JoinFields(_)
\* "&".join(fields)
JoinFields(fields) ==
  IF fields = <<>> THEN <<>>
  ELSE IF Len(fields) = 1 THEN fields[1]
  ELSE fields[1] \o <<"&">> \o JoinFields(Tail(fields))

QueryTexts == { JoinFields(fs) : fs \in SeqsUpTo(QueryFields, MaxFields) }

DigitChar(d) == CHOOSE c \in Digits : DigitVal(c) = d

RECURSIVE NatText(_)
\* str(n) of a natural number
NatText(n) == IF n < 10 THEN <<DigitChar(n)>> ELSE NatText(n \div 10) \o <<DigitChar(n % 10)>>

NextQuery ==
  \/ \E q \in QueryTexts : ReceiveGet("r1", GET, <<"/", "health", "?">> \o q)
  \/ \E q \in QueryTexts :
       ReceivePost("r1", <<"/", "update">>, <<Header(ContentLengthName, NatText(Len(q)))>>, q)
  \/ Dispatch("r1")
  \/ DispatchPost("r1")
  \/ HandlerReturns("r1")
  \/ HandleUpdate("r1")
  \/ SendOk("r1")
  \/ Return("r1")

SpecQuery == Init /\ [][NextQuery]_vars

\* the default router serving a GET (slot r1) and a POST (slot r2) side by side
NextKeys ==
  \/ \E t \in Targets : ReceiveGet("r1", GET, t)
  \/ \E t \in Targets : ReceivePost("r2", t, <<>>, <<>>)
  \/ Dispatch("r1")
  \/ DispatchPost("r2")
  \/ WebhookReturns("r2", 200, "reply")
  \/ \E r \in Reqs : HandlerReturns(r) \/ HandleUpdate(r) \/ SendOk(r)

SpecKeys == Init /\ [][NextKeys]_vars

\* code values a client sends to /analysis
AnalysisCodes ==
  { <<"6", "0", "0", "5", "1", "9">>, <<"6", "0", "0", "5", "1">>,
    <<"6", "0", "0", "5", "1", "9", "0">>, <<"6", "0", "0", "5", "1", "t">>,
    <<"h", "k", "0", "0", "7", "0", "0">>, <<"H", "K", "0", "0", "7", "0", "0">>,
    <<"h", "k", "0", "0", "7", "0">>, <<"h", "k", "0", "0", "7", "0", "0", "1">>,
    <<"t">>, <<"T">>, <<"+", "t", "+">>, <<"+">>, <<"g", "e", "t", "p", "o">>,
    <<"g", "e", "t", "p", "o", "s">>, <<"t", ".", "s">>, <<"t", ".", "s", "s">>,
    <<"t", ".", "s", "s", "s">>, <<"t", ".">>, <<".", "s">>, <<"t", ".", "1">>,
    <<"t", "1">>, <<"t", "-", "s">>, <<"t", ".", "s", ".", "s">>, <<"k">> }

\* the default router serving GET /analysis
NextAnalysis ==
  \/ ReceiveGet("r1", GET, <<"/", "analysis">>)
  \/ \E c \in AnalysisCodes :
       \/ ReceiveGet("r1", GET, <<"/", "analysis", "?", "code", "=">> \o c)
       \/ ReceiveGet("r1", GET, <<"/", "analysis", "?", "code", "=">> \o c
                                  \o <<"&", "code", "=", "1">>)
  \/ \E q \in { <<"k", "=", "v">>, <<"code", "=">> } :
       ReceiveGet("r1", GET, <<"/", "analysis", "?">> \o q)
  \/ Dispatch("r1")
  \/ HandlerReturns("r1")
  \/ \E msg \in Messages : ServiceFailureCaught("r1", msg)
  \/ SendOk("r1")

SpecAnalysis == Init /\ [][NextAnalysis]_vars

\* the default router serving one POST /update, for each env file text of up to
\* MaxEnvLines lines and each Config object
EnvLines ==
  { <<"STOCK_LIST", "=", "1">>, <<"MY_", "STOCK_LIST", "=", "1">>,
    <<" ", "STOCK_LIST", "=", "1">>, <<"GEMINI_API_KEY", "=", "old">>, <<"OTHER", "=", "1">> }

EnvTexts == { JoinLines(ls) : ls \in SeqsUpTo(EnvLines, MaxEnvLines) }

\* a Config object without the attributes, and one that has them all
ConfigObjects ==
  { <<>>, [a \in {UpdateKeys[i][3] : i \in 1..Len(UpdateKeys)} |-> [text |-> <<"old">>]] }

UpdateForms ==
  { <<>>,
    <<"stock_list", "=", "5">>,
    <<"stock_list", "=", "5", "&", "gemini_key", "=", "s", "*">>,
    <<"stock_list", "=", "*", "&", "gemini_key", "=", "g">>,
    <<"gemini_key", "=", "g", "&", "tavily_key", "=", "a", ",", "+", "b">>,
    <<"stock_list", "=", "&", "email_receivers", "=", "m">> }

InitUpdate ==
  \E text \in EnvTexts, cfg \in ConfigObjects :
    InitServingWith(create_default_router, text, cfg) /\ InitSingleton(1)

NextUpdate ==
  \/ \E f \in UpdateForms :
       ReceivePost("r1", <<"/", "update">>, <<Header(ContentLengthName, NatText(Len(f)))>>, f)
  \/ DispatchPost("r1")
  \/ HandleUpdate("r1")
  \/ SendOk("r1")

SpecUpdate == InitUpdate /\ [][NextUpdate]_vars

\* the default router after router.register("/bot/tg", "POST", ...) by the embedding
\* application: a table entry under the reserved prefix
InitBotRoute ==
  /\ InitServing(RegisterOp(create_default_router, <<"/", "bot", "/", "tg">>, POST,
                            "handle_index", "handle_index"))
  /\ InitSingleton(1)

SpecBotRoute == InitBotRoute /\ [][Next]_vars

\* the same router serving two requests concurrently
TargetsC == { <<"/">>, <<"/", "nope">>, <<"/", "update">>, <<"/", "bot", "/", "tg">> }

HeaderListsC == { <<>>, <<Header(ContentLengthName, <<"x">>)>> }

MessagesC == { <<"Z">> }

StepC(r) ==
  \/ Dispatch(r)
  \/ DispatchPost(r)
  \/ HandlerReturns(r)
  \/ HandleUpdate(r)
  \/ \E msg \in MessagesC : HandlerRaises(r, msg)
  \/ \E s \in HookStatuses : WebhookReturns(r, s, "reply")
  \/ \E msg \in MessagesC : WebhookRaises(r, msg)
  \/ SendOk(r)
  \/ SendFail(r)

NextConc ==
  \E r \in Reqs :
    \/ \E t \in TargetsC : ReceiveGet(r, GET, t)
    \/ \E t \in TargetsC, h \in HeaderListsC : ReceivePost(r, t, h, <<>>)
    \/ StepC(r)

SpecConc == Init /\ [][NextConc]_vars

(***************************************************************************)
(* get_router: the lazily built default router                             *)
(***************************************************************************)
SingletonFrame ==
  UNCHANGED <<regLog, req, sent, wire, hookCalls, handlerCalls, errlog, failed, listed,
              env_text, config, submitted>>

\* a request thread calls get_router()
CallGetRouter(t) ==
  /\ caller[t].pc = "idle"
  /\ Cardinality({u \in Threads : caller[u].pc # "idle"}) + Len(returned) < MaxCalls
  /\ caller' = [caller EXCEPT ![t].pc = "check"]
  /\ UNCHANGED <<routes, default_router, created, returned>>
  /\ SingletonFrame

\* if _default_router is None
CheckRouter(t) ==
  /\ caller[t].pc = "check"
  /\ caller' = [caller EXCEPT ![t].pc = IF default_router = NoRouter THEN "create" ELSE "return"]
  /\ UNCHANGED <<routes, default_router, created, returned>>
  /\ SingletonFrame

\* create_default_router(): a new Router instance, numbered in order of creation
CreateRouter(t) ==
  /\ caller[t].pc = "create"
  /\ created' = created + 1
  /\ caller' = [caller EXCEPT ![t].pc = "assign", ![t].router = created + 1]
  /\ UNCHANGED <<routes, default_router, returned>>
  /\ SingletonFrame

\* _default_router = <the instance just created>
AssignRouter(t) ==
  /\ caller[t].pc = "assign"
  /\ default_router' = caller[t].router
  /\ routes' = create_default_router
  /\ caller' = [caller EXCEPT ![t].pc = "return"]
  /\ UNCHANGED <<created, returned>>
  /\ SingletonFrame

\* return _default_router
ReturnRouter(t) ==
  /\ caller[t].pc = "return"
  /\ returned' = Append(returned, default_router)
  /\ caller' = [caller EXCEPT ![t] = NotCalling]
  /\ UNCHANGED <<routes, default_router, created>>
  /\ SingletonFrame

InitGetRouter == InitServing(EmptyRoutes) /\ InitSingleton(0)

NextGetRouter ==
  \E t \in Threads :
    \/ CallGetRouter(t)
    \/ CheckRouter(t)
    \/ CreateRouter(t)
    \/ AssignRouter(t)
    \/ ReturnRouter(t)

SpecGetRouter == InitGetRouter /\ [][NextGetRouter]_vars

(***************************************************************************)
(* Properties                                                              *)
(***************************************************************************)
Finished(r) == req[r].pc \in {"done", "raised"}

\* the header carries no Content-Length field, or one int() rejects
LengthMissingOrInvalid(headers) ==
  \/ \A i \in 1..Len(headers) : Lower(headers[i].name) # Lower(ContentLengthName)
  \/ ~IsIntText(HeaderGet(headers, ContentLengthName, <<"0">>))

\* the body the request carries: as many bytes as Content-Length announces,
\* none when the field is missing or invalid
FramedBody(r) ==
  IF LengthMissingOrInvalid(req[r].headers) THEN <<>>
  ELSE ReadBytes(req[r].stream, IntOf(HeaderGet(req[r].headers, ContentLengthName, <<"0">>)))

NeverRegistered(path, method) ==
  \A i \in 1..Len(DefaultRegistrations) :
    ~(DefaultRegistrations[i][1] = path /\ DefaultRegistrations[i][2] = Upper(method))

WebhookPath(path) == StartsWith(path, <<"/", "bot", "/">>)

\* C1: no failure escapes dispatch: every GET and POST dispatch returns
\* normally to its caller, whatever the path, the headers, the handler
\* outcome and the transport do.
C1_NoFailureEscapesDispatch == \A r \in Reqs : req[r].pc # "raised"

\* C2: in POST dispatch a missing or invalid Content-Length is read as a
\* zero-length body: no byte is read, the request is not failed because of
\* the header, and routing goes on with an empty body.
C2_BadLengthIsZeroLength ==
  \A r \in Reqs :
    (req[r].method = POST /\ req[r].pc \notin {"idle", "dispatch_post"}
       /\ LengthMissingOrInvalid(req[r].headers))
    => /\ req[r].body = <<>>
       /\ ~(req[r].pc = "raised" /\ sent[r] = <<>>)

\* C3: a request for a (path, method) that was never registered (POST only
\* outside /bot/) is answered 404 with the markup content type, and no
\* handler is invoked.
C3_UnregisteredIsNotFound ==
  \A r \in Reqs :
    (Finished(r) /\ ~WebhookPath(req[r].path) /\ NeverRegistered(req[r].path, req[r].method))
    => /\ Match(routes, req[r].path, req[r].method) = None
       /\ sent[r] # <<>>
       /\ sent[r][1].status = 404
       /\ sent[r][1].contentType = HtmlType
       /\ handlerCalls[r] = <<>>

\* the matched handler raised and the except clause has sent its page
HandlerRaised(r) == req[r].handlerRaised /\ sent[r] # <<>>

\* a dispatch through Router.dispatch, after an earlier dispatch whose handler
\* raised, to a route whose handler returned
HealthyAfterFailure(r) ==
  /\ failed
  /\ req[r].method \in GetMethods
  /\ handlerCalls[r] # <<>>
  /\ ~req[r].handlerRaised
  /\ sent[r] # <<>>

\* C4 as stated: when the matched handler raises, the 500 markup page sent
\* contains the text of the failure's message, and a later dispatch to a
\* healthy route still sends that handler's Response.
C4_ErrorPageContainsMessage ==
  \A r \in Reqs :
    /\ HandlerRaised(r)
       => /\ sent[r][1].status = 500
          /\ sent[r][1].contentType = HtmlType
          /\ Contains(sent[r][1].body, errlog[r][1].message)
    /\ HealthyAfterFailure(r) =>
         sent[r][1] \in ReturnableResponses(req[r].handler, handlerCalls[r][1].arg)

\* C4 amended: when the matched handler raises, the 500 markup page sent
\* contains the HTML-escaped text of the failure's message, and a later
\* dispatch to a healthy route still sends that handler's Response.
C4_ErrorPageContainsEscapedMessage ==
  \A r \in Reqs :
    /\ HandlerRaised(r)
       => /\ sent[r][1].status = 500
          /\ sent[r][1].contentType = HtmlType
          /\ Contains(sent[r][1].body, HtmlEscape(errlog[r][1].message))
    /\ HealthyAfterFailure(r) =>
         sent[r][1] \in ReturnableResponses(req[r].handler, handlerCalls[r][1].arg)

C4_Witness ==
  \E r \in Reqs :
    /\ HandlerRaised(r)
    /\ errlog[r][1].message = <<"Z", "<">>
    /\ req[r].method \in GetMethods
    /\ req[r].pc = "done"

C4_WitnessHealthy ==
  \E r \in Reqs : HealthyAfterFailure(r) /\ req[r].pc = "done" /\ Len(sent[r]) = 1

SameKey(e, p, m) == e.path = p /\ Upper(e.method) = Upper(m)

LastIndex(p, m) ==
  CHOOSE i \in 1..Len(regLog) :
    /\ SameKey(regLog[i], p, m)
    /\ \A j \in 1..Len(regLog) : SameKey(regLog[j], p, m) => j <= i

StoredKeys == UNION {{<<p, k>> : k \in DOMAIN routes[p]} : p \in DOMAIN routes}

\* C5: registration is idempotent overwrite: after any sequence of register
\* calls, match(p, m) returns the route of the last register(p, m, h) (methods
\* compared as the router stores them, upper-cased), there is exactly one
\* route per registered (p, m), and a pair never registered matches nothing.
C5_LastRegistrationWins ==
  /\ \A p \in RegPaths, m \in RegMethods :
       IF \E i \in 1..Len(regLog) : SameKey(regLog[i], p, m)
       THEN /\ Match(routes, p, m) # None
            /\ Match(routes, p, m).handler = regLog[LastIndex(p, m)].handler
            /\ Match(routes, p, m).path = p
            /\ Match(routes, p, m).method = Upper(m)
       ELSE Match(routes, p, m) = None
  /\ StoredKeys = {<<regLog[i].path, Upper(regLog[i].method)>> : i \in 1..Len(regLog)}

C5_Witness ==
  /\ Len(regLog) = 3
  /\ ~SameKey(regLog[1], regLog[3].path, regLog[3].method)
  /\ SameKey(regLog[2], regLog[3].path, regLog[3].method)
  /\ regLog[2].handler # regLog[3].handler
  /\ Match(routes, regLog[3].path, regLog[3].method).handler = regLog[3].handler
  /\ Match(routes, regLog[1].path, regLog[1].method).handler = regLog[1].handler

WebhookRequest(r) ==
  /\ req[r].method = POST
  /\ WebhookPath(UrlPath(req[r].target))
  /\ Len(Split(Strip(UrlPath(req[r].target), "/"), "/")) >= 2

\* C6: a POST to /bot/{platform}[/...] with header map H and raw body B
\* invokes the webhook service exactly once, with the second path segment as
\* platform, H with the case of its keys kept, and exactly the bytes of B.
C6_WebhookInvokedOnceWithRawBody ==
  \A r \in Reqs :
    (WebhookRequest(r) /\ Finished(r))
    => /\ Len(hookCalls[r]) = 1
       /\ hookCalls[r][1].platform = Split(Strip(UrlPath(req[r].target), "/"), "/")[2]
       /\ hookCalls[r][1].headers = HeadersDict(req[r].headers)
       /\ hookCalls[r][1].body = FramedBody(r)

ShortWebhookPaths == { <<"/", "bot">>, <<"/", "bot", "/">> }

\* C7: a POST to /bot or /bot/ is answered 404 and the webhook service is
\* never invoked for it.
C7_ShortWebhookPathIsNotFound ==
  \A r \in Reqs :
    (req[r].method = POST /\ UrlPath(req[r].target) \in ShortWebhookPaths /\ Finished(r))
    => /\ sent[r] # <<>>
       /\ sent[r][1].status = 404
       /\ hookCalls[r] = <<>>

\* C8: once the webhook path has parsed, every failure is reported as a JSON
\* response with status 500 and body {"error": message}; a markup 500 page is
\* never sent on a webhook path.
C8_WebhookFailuresAreJson ==
  \A r \in Reqs :
    WebhookRequest(r)
    => \A i \in 1..Len(sent[r]) :
         sent[r][i].status = 500
         => /\ sent[r][i].contentType = JsonType
            /\ StartsWith(sent[r][i].body, <<"{", "\"error\"", ":">>)

\* C9: when the webhook service returns a JSON-serializable body with numeric
\* status code s, the response sent is a JSON Response with status s, for
\* every s the service may return.
C9_WebhookStatusForwarded ==
  \A r \in Reqs :
    (req[r].handler = "handle_webhook" /\ ~req[r].hookRaised
       /\ JsonSerializable(ValueData(req[r].hookValue)) /\ sent[r] # <<>>)
    => /\ sent[r][1].status = req[r].hookStatus
       /\ sent[r][1].contentType = JsonType

NonFailing(r) == req[r].pc = "done" /\ errlog[r] = <<>> /\ req[r].handler # ""

OwnResponse(r) ==
  IF req[r].handler = "handle_webhook"
  THEN JsonResponse(ValueData(req[r].hookValue), req[r].hookStatus)
  ELSE HandlerResponse(Match(create_default_router, req[r].path, req[r].method).handler)

\* C10: failures are request-scoped: under any interleaving of concurrent
\* GET, POST and webhook dispatches, some of which fail, the route table stays
\* the table built at startup, and every request that does not fail receives
\* exactly the Response of its own handler.
C10_FailuresAreRequestScoped ==
  /\ routes = create_default_router
  /\ \A r \in Reqs :
       NonFailing(r)
       => /\ sent[r] = <<OwnResponse(r)>>
          /\ wire[r] = SendHead(OwnResponse(r)) \o <<Event("body", 0, "", OwnResponse(r).body)>>

C10_Witness ==
  \E r, q \in Reqs :
    /\ r # q
    /\ NonFailing(r)
    /\ req[r].handler = "handle_index"
    /\ req[q].pc = "send"
    /\ handlerCalls[q] # <<>>
    /\ errlog[q] # <<>>

\* C11: the default router is constructed once: over any calls of
\* get_router(), concurrent first calls included, create_default_router runs
\* at most once and every call returns the same Router instance.
C11_DefaultRouterBuiltOnce ==
  /\ created <= 1
  /\ \A i, j \in 1..Len(returned) : returned[i] = returned[j]

ProbePaths ==
  RegPaths \cup { <<"/", "A">>, <<"/", "a", "/">>, <<"/", "a", "/", "b">>, <<"a">>, <<>>,
                  <<"/", "a", "?", "k", "=", "v">> }

ProbeMethods == RegMethods \cup { <<"H", "E", "A", "D">>, <<"p", "o", "s", "t">> }

RegisteredExactly(q, m) ==
  \E i \in 1..Len(regLog) : regLog[i].path = q /\ Upper(regLog[i].method) = Upper(m)

\* C12: match is an exact lookup without wildcards or path parameters: it
\* returns a Route exactly when a route was registered under that very path
\* string (case-sensitively) and that method (as the router stores it,
\* upper-cased), and none otherwise; /a matches neither /A, /a/ nor /a/b.
C12_MatchIsExactLookup ==
  \A q \in ProbePaths, m \in ProbeMethods :
    IF RegisteredExactly(q, m)
    THEN Match(routes, q, m) # None /\ Match(routes, q, m).path = q
    ELSE Match(routes, q, m) = None

C12_Witness ==
  /\ RegisteredExactly(<<"/", "a">>, GET)
  /\ ~RegisteredExactly(<<"/", "a">>, POST)
  /\ Match(routes, <<"/", "a">>, GET) # None
  /\ Match(routes, <<"/", "a">>, POST) = None
  /\ Match(routes, <<"/", "A">>, GET) = None
  /\ Match(routes, <<"/", "a", "/">>, GET) = None
  /\ Match(routes, <<"/", "a", "/", "b">>, GET) = None

\* the multi-map a handler is to receive: the decoded query (GET) or form body (POST)
DecodedInput(r) ==
  IF req[r].method = POST THEN ParseQs(Decode(req[r].body))
  ELSE ParseQs(UrlQuery(req[r].target))

HandlerInvokedFor(r, key) ==
  /\ Match(routes, key, req[r].method) # None
  /\ \A i \in 1..Len(handlerCalls[r]) :
       /\ handlerCalls[r][i].handler = Match(routes, key, req[r].method).handler
       /\ handlerCalls[r][i].arg = DecodedInput(r)

RouteKey(r) ==
  IF UrlPath(req[r].target) = <<>> /\ req[r].method # POST THEN <<"/">>
  ELSE UrlPath(req[r].target)

\* the router answered 404 for a path outside the /bot/ prefix
RouteNotFound(r) ==
  /\ req[r].pc \in {"send", "done"}
  /\ handlerCalls[r] = <<>>
  /\ req[r].pending.status = 404
  /\ ~StartsWith(UrlPath(req[r].target), <<"/", "bot", "/">>)

ListedNow == Len(listed') = Len(listed) + 1

\* the listing holds exactly one triple per stored (path, method) pair, with
\* the description of the route stored there, in ascending (path, method) order
IsListingOf(l, rt) ==
  /\ \A q \in DOMAIN rt : \A m \in DOMAIN rt[q] :
       Cardinality({i \in 1..Len(l) : l[i][1] = m /\ l[i][2] = q}) = 1
  /\ \A i \in 1..Len(l) :
       /\ l[i][2] \in DOMAIN rt
       /\ l[i][1] \in DOMAIN rt[l[i][2]]
       /\ l[i][3] = rt[l[i][2]][l[i][1]].description
  /\ \A i, j \in 1..Len(l) :
       i < j => \/ StrLess(l[i][2], l[j][2])
                \/ l[i][2] = l[j][2] /\ StrLess(l[i][1], l[j][1])

\* C14: list_routes returns exactly one (method, path, description) triple
\* per registered (path, method) pair, sorted ascending by (path, method)
\* whatever the registration order, and leaves the route table as it was.
C14_ListRoutesSortedAndPure ==
  [][ListedNow => /\ routes' = routes
                  /\ IsListingOf(listed'[Len(listed')], routes)]_vars

C14_Witness ==
  /\ Len(regLog) = 3
  /\ regLog[1].path = <<"/", "b">> /\ regLog[1].method = GET
  /\ regLog[2].path = <<"/", "a">> /\ regLog[2].method = GET
  /\ regLog[3].path = <<"/", "a">> /\ regLog[3].method = POST
  /\ listed # <<>>
  /\ LET l == listed[Len(listed)]
     IN  /\ Len(l) = 3
         /\ <<l[1][1], l[1][2]>> = <<GET, <<"/", "a">> >>
         /\ <<l[2][1], l[2][2]>> = <<POST, <<"/", "a">> >>
         /\ <<l[3][1], l[3][2]>> = <<GET, <<"/", "b">> >>

\* events i-4..i of the wire are the five emissions of one send of resp
EmissionOf(w, i, resp) ==
  /\ i >= 5
  /\ w[i - 4] = Event("status", resp.status, "", <<>>)
  /\ w[i - 3] = Event("Content-Type", 0, resp.contentType, <<>>)
  /\ w[i - 2] = Event("Content-Length", Len(resp.body), "", <<>>)
  /\ w[i - 1] = Event("end_headers", 0, "", <<>>)
  /\ w[i] = Event("body", 0, "", resp.body)

\* C15: every Response sent emits, in this order, the status line, the
\* Content-Type header, a Content-Length header equal to the length of the
\* body, the end of headers and then the body bytes unmodified: a body on
\* the wire always follows the head of a Response handed to send, and a
\* send that completes leaves exactly these five emissions last on the wire.
C15_SendEmitsHeadThenBody ==
  \A r \in Reqs :
    /\ \A i \in 1..Len(wire[r]) :
         wire[r][i].ev = "body" =>
           \E k \in 1..Len(sent[r]) : EmissionOf(wire[r], i, sent[r][k])
    /\ req[r].pc = "done" =>
         /\ sent[r] # <<>>
         /\ EmissionOf(wire[r], Len(wire[r]), sent[r][Len(sent[r])])

C15_Witness ==
  \E r \in Reqs :
    /\ req[r].pc = "done"
    /\ Len(sent[r]) = 2
    /\ sent[r][2].status = 500
    /\ Len(sent[r][2].body) > 5
    /\ Len(wire[r]) = 9
    /\ wire[r][7].num = Len(wire[r][9].bytes)

\* the (path, method) pairs of the HTTP surface table
SurfacePairs ==
  { <<p, GET>> : p \in { <<"/">>, <<"/", "fund", "/", "detail">>, <<"/", "history">>,
                         <<"/", "market_review">>, <<"/", "market_review", "/", "detail">>,
                         <<"/", "market_review", "/", "run">>, <<"/", "config">>,
                         <<"/", "system", "/", "status">>, <<"/", "health">>,
                         <<"/", "analysis">>, <<"/", "analysis", "/", "all">>,
                         <<"/", "tasks">>, <<"/", "task">> } }
    \cup { <<p, POST>> : p \in { <<"/", "update">>, <<"/", "email", "/", "send_report">> } }

\* C16: the route table built at startup holds exactly the (path, method)
\* pairs of the HTTP surface table, no other pair matches, and a webhook
\* request /bot/{platform} is served although the table has no entry for it.
C16_DefaultTableIsSurfaceTable ==
  /\ StoredKeys = SurfacePairs
  /\ \A t \in Targets, m \in {GET, POST} :
       Match(routes, UrlPath(t), m) # None <=> <<UrlPath(t), m>> \in SurfacePairs
  /\ \A q \in DOMAIN routes : ~StartsWith(q, <<"/", "bot">>)
  /\ \A r \in Reqs :
       hookCalls[r] # <<>> => /\ WebhookPath(UrlPath(req[r].target))
                              /\ Match(routes, UrlPath(req[r].target), POST) = None

C16_Witness ==
  /\ Cardinality(StoredKeys) = 15
  /\ \E r \in Reqs :
       /\ req[r].pc = "done"
       /\ req[r].target = <<"/", "bot", "/", "tg">>
       /\ Len(hookCalls[r]) = 1
       /\ sent[r][1].status = 200

JsonRoutes == {"handle_analysis", "handle_tasks", "handle_task_status"}

\* C17: the API JSON routes /analysis, /tasks and /task wrap their own
\* errors: whatever the query and whatever the analysis service does, the
\* handler returns a JSON Response and does not raise, so the router sends
\* no markup 500 for them.
C17_ApiRoutesAnswerJson ==
  \A r \in Reqs :
    (handlerCalls[r] # <<>> /\ req[r].handler \in JsonRoutes) =>
      /\ ~req[r].handlerRaised
      /\ req[r].pc = "send" /\ req[r].inTry => req[r].pending.contentType = JsonType

PostDispatched(r) == req[r].method = POST /\ req[r].pc \notin {"idle", "dispatch_post"}

\* the webhook sub-dispatcher has the request: it is about to call the
\* service, has called it, or has answered 404 for a path without platform
AtWebhookSubDispatcher(r) ==
  \/ req[r].pc = "webhook"
  \/ /\ Len(hookCalls[r]) = 1
     /\ hookCalls[r][1].body = req[r].body
     /\ hookCalls[r][1].headers = HeadersDict(req[r].headers)
  \/ sent[r] = <<>> /\ req[r].pc = "send" /\ req[r].pending = NotFoundResponse(req[r].path)
  \/ sent[r] # <<>> /\ sent[r][1] = NotFoundResponse(req[r].path)

\* C18: a POST whose path starts with /bot/ is always handed to the webhook
\* sub-dispatcher with the raw bytes and the headers, and no table handler
\* is invoked for it even when a POST route is registered at that very
\* path; for every other POST path the webhook service is never invoked.
C18_BotPrefixAlwaysDelegates ==
  \A r \in Reqs :
    PostDispatched(r) =>
      IF WebhookPath(UrlPath(req[r].target))
      THEN handlerCalls[r] = <<>> /\ req[r].pc # "handler" /\ AtWebhookSubDispatcher(r)
      ELSE hookCalls[r] = <<>> /\ req[r].pc # "webhook"

\* match found a route for the request
Matched(r) == req[r].handler \notin {"", "handle_webhook"}

\* C19: handler invocation is synchronous and never retried: in every
\* dispatch the matched handler is invoked at most once, a response is sent
\* only after that invocation has returned or failed, and dispatch returns
\* only after the response has been sent.
C19_HandlerInvokedOnceBeforeSend ==
  \A r \in Reqs :
    /\ Len(handlerCalls[r]) <= 1
    /\ Matched(r) =>
         /\ (sent[r] # <<>> \/ req[r].pc = "send") => Len(handlerCalls[r]) = 1
         /\ Finished(r) => sent[r] # <<>>
    /\ req[r].pc = "done" => sent[r] # <<>> /\ wire[r][Len(wire[r])].ev = "body"

C19_Witness ==
  \E r \in Reqs :
    /\ req[r].pc = "done"
    /\ Matched(r)
    /\ Len(handlerCalls[r]) = 1
    /\ Len(sent[r]) = 2
    /\ sent[r][1].status = 200
    /\ sent[r][2].status = 500

\* the query string or form text a dispatch parses
RawText(r) == IF req[r].method = POST THEN Decode(req[r].body) ELSE UrlQuery(req[r].target)

\* a field name=value with a non-empty value
FieldKept(f) == IndexOf(f, "=", 1) \in 1..(Len(f) - 1)

FieldName(f) == Unquote(SubSeq(f, 1, IndexOf(f, "=", 1) - 1))

FieldValue(f) == Unquote(SubSeq(f, IndexOf(f, "=", 1) + 1, Len(f)))

\* the fields of the text that carry key n, in their original order
FieldsNamed(text, n) ==
  SelectSeq(Split(text, "&"), LAMBDA f : FieldKept(f) /\ FieldName(f) = n)

\* C20: in the multi-map handed to a handler every key of the query or form
\* text maps to the sequence of all its values in original order: a key
\* that appears twice maps to its two values in order, every value is a
\* sequence of at least one text, and index 0 holds the first occurrence.
C20_RepeatedKeysKeepOrder ==
  \A r \in Reqs : \A c \in 1..Len(handlerCalls[r]) :
    LET arg == handlerCalls[r][c].arg
        fields == Split(RawText(r), "&")
    IN  /\ DOMAIN arg = {FieldName(fields[i]) : i \in {j \in 1..Len(fields) : FieldKept(fields[j])}}
        /\ \A n \in DOMAIN arg :
             /\ Len(arg[n]) = Len(FieldsNamed(RawText(r), n))
             /\ Len(arg[n]) >= 1
             /\ \A i \in 1..Len(arg[n]) : arg[n][i] = FieldValue(FieldsNamed(RawText(r), n)[i])

C20_Witness ==
  \E r \in Reqs :
    /\ req[r].target = <<"/", "health", "?", "k", "=", "1", "&", "k", "=", "2">>
    /\ Len(handlerCalls[r]) = 1
    /\ handlerCalls[r][1].arg = (<<"k">> :> << <<"1">>, <<"2">> >>)
    /\ handlerCalls[r][1].arg[<<"k">>][1] = <<"1">>

\* the router answers, or has answered, with its 404 page
NotFoundAnswered(r) ==
  \/ sent[r] = <<>> /\ req[r].pc = "send" /\ req[r].pending = NotFoundResponse(req[r].path)
  \/ sent[r] # <<>> /\ sent[r][1] = NotFoundResponse(req[r].path)

\* the 500 page the except clause sends, or is about to send, for message msg
ErrorPageFor(r, msg) ==
  /\ sent[r] = <<>> => req[r].pc = "send" /\ req[r].pending = ErrorResponse(msg)
  /\ sent[r] # <<>> => sent[r][1] = ErrorResponse(msg)

\* C21: error logging follows the taxonomy: a handler that raises on GET or
\* POST leaves exactly one error log entry, carrying the method, the path
\* and the failure message; a route-not-found 404 and the 404 for a
\* malformed webhook path leave no error log entry.
C21_ErrorLogTaxonomy ==
  \A r \in Reqs :
    /\ req[r].handlerRaised =>
         /\ Len(errlog[r]) = 1
         /\ errlog[r][1].tag = FailTag(r)
         /\ errlog[r][1].method = req[r].method
         /\ errlog[r][1].path = req[r].path
         /\ req[r].path = RouteKey(r)
         /\ ErrorPageFor(r, errlog[r][1].message)
         /\ InputError(req[r].handler, handlerCalls[r][1].arg) # <<>> =>
              errlog[r][1].message = InputError(req[r].handler, handlerCalls[r][1].arg)
    /\ NotFoundAnswered(r) => errlog[r] = <<>>

C21_Witness ==
  \E r \in Reqs :
    /\ req[r].pc = "done"
    /\ req[r].method = POST
    /\ req[r].handlerRaised
    /\ errlog[r] = <<LogEntry("POST", POST, <<"/", "update">>, <<"Z", "<">>)>>

C21_WitnessNotFound ==
  \E r \in Reqs :
    /\ req[r].pc = "done"
    /\ NotFoundAnswered(r)
    /\ WebhookPath(req[r].path)

\* how many emissions of kind ev the transport of request r has seen
Emitted(r, ev) == Cardinality({i \in 1..Len(wire[r]) : wire[r][i].ev = ev})

\* C22: every dispatch writes exactly one response to the transport: never
\* a second status line after a first one, and a dispatch that is over has
\* written one status line, one header block and one body.
C22_OneResponsePerDispatch ==
  \A r \in Reqs :
    /\ Emitted(r, "status") <= 1
    /\ Finished(r) =>
         /\ Emitted(r, "status") = 1
         /\ Emitted(r, "end_headers") = 1
         /\ Emitted(r, "body") = 1

\* C23: the webhook service is only ever invoked with a non-empty platform
\* identifier: a POST under /bot/ either passes a non-empty path segment as
\* platform or is answered 404 without the service being invoked.
C23_PlatformNeverEmpty ==
  \A r \in Reqs :
    /\ req[r].pc = "webhook" => req[r].platform # <<>>
    /\ \A i \in 1..Len(hookCalls[r]) : hookCalls[r][i].platform # <<>>

\* the dispatch of request r has fixed the path it looks up
PathResolved(r) == req[r].pc \notin {"idle", "dispatch", "dispatch_post"}

\* C24: GET dispatch and POST dispatch resolve a request target outside the
\* /bot/ prefix to the same route-table key: for the same target, the path
\* dispatch matches on equals the path dispatch_post matches on.
C24_SameKeyForGetAndPost ==
  ( /\ PathResolved("r1") /\ PathResolved("r2")
    /\ req["r1"].target = req["r2"].target
    /\ ~WebhookPath(UrlPath(req["r1"].target)) )
  => req["r1"].path = req["r2"].path

\* handle_update has run for request r and returned
Updated(r) ==
  /\ handlerCalls[r] # <<>>
  /\ handlerCalls[r][1].handler = "handle_update"
  /\ ~req[r].handlerRaised

\* the value submitted for entry i of `updates` in request r
Submitted(r, i) == UpdateValue(handlerCalls[r][1].arg, i)

\* a value that is missing, empty or masked
NotSubmitted(v) == v = <<>> \/ \E k \in 1..Len(v) : v[k] = "*"

HasLine(text, line) == \E k \in 1..Len(Split(text, "\n")) : Split(text, "\n")[k] = line

\* C25: after handle_update was called with a non-empty value v without '*'
\* for a configuration key K, the env text written back contains a line
\* K=v, whatever the env text was before.
C25_UpdatedKeyHasItsLine ==
  \A r \in Reqs :
    Updated(r) =>
      \A i \in 1..Len(UpdateKeys) :
        ~NotSubmitted(Submitted(r, i)) =>
          HasLine(env_text, <<UpdateKeys[i][1], "=">> \o Submitted(r, i))

\* the step in which handle_update runs for request r and returns
UpdatingNow(r) ==
  /\ req[r].pc = "handler"
  /\ req[r].handler = "handle_update"
  /\ req'[r].pc = "send"
  /\ ~req'[r].handlerRaised

\* the lines of the env text that set key, in order
KeyLines(text, key) == SelectSeq(Split(text, "\n"), LAMBDA l : StartsWith(l, <<key, "=">>))

\* the Config attributes entry i of `updates` can set
KeyAttrs(i) ==
  {UpdateKeys[i][3]} \cup (IF UpdateKeys[i][1] = "SERPAPI_API_KEYS" THEN {"serpapi_keys"} ELSE {})

\* entry j of `updates`, with value v, has taken effect in this step
AppliedNow(j, v) ==
  /\ UpdateKeys[j][3] \in DOMAIN config => config'[UpdateKeys[j][3]] = [text |-> v]
  /\ KeyLines(env_text, UpdateKeys[j][1]) # <<>> =>
       /\ Len(KeyLines(env_text', UpdateKeys[j][1])) = Len(KeyLines(env_text, UpdateKeys[j][1]))
       /\ \A k \in 1..Len(KeyLines(env_text', UpdateKeys[j][1])) :
            KeyLines(env_text', UpdateKeys[j][1])[k] = <<UpdateKeys[j][1], "=">> \o v
  /\ ~Contains(env_text, <<UpdateKeys[j][1], "=">>) =>
       KeyLines(env_text', UpdateKeys[j][1]) = << <<UpdateKeys[j][1], "=">> \o v >>

IsErrorPage(body) == Len(body) >= 3 /\ body[1] = "tpl:base" /\ body[2] = "tpl:h2"

\* C27: whenever a markup error page rendered for status code c is sent
\* (the router's 404 and 500 pages and the 400/404 pages of the handlers of
\* /fund/detail and /market_review/detail), the Response carrying it has
\* HTTP status c.
C27_ErrorPageStatusMatches ==
  \A r \in Reqs : \A k \in 1..Len(sent[r]) :
    IsErrorPage(sent[r][k].body) => sent[r][k].body[3] = ToString(sent[r][k].status)

\* request r's handle_analysis has run
Analysed(r) == handlerCalls[r] # <<>> /\ handlerCalls[r][1].handler = "handle_analysis"

\* the first code value of the query handle_analysis received, trimmed and upper-cased
FirstCode(r) ==
  LET q == handlerCalls[r][1].arg
  IN  IF <<"code">> \in DOMAIN q THEN Upper(Strip(q[<<"code">>][1], " ")) ELSE <<>>

DigitAtoms == {"0", "1", "2", "3", "4", "5", "6", "7", "8", "9"}

\* 6 digits, HK plus 5 digits, or 1-5 letters with an optional .XX suffix of 1-2 letters
AcceptedShape(c) ==
  \/ c \in [1..6 -> DigitAtoms]
  \/ \E d \in [1..5 -> DigitAtoms] : c = <<"H", "K">> \o d
  \/ \E n \in 1..5 : c \in [1..n -> UpperLetters]
  \/ \E n \in 1..5, k \in 1..2 :
       /\ Len(c) = n + 1 + k
       /\ SubSeq(c, 1, n) \in [1..n -> UpperLetters]
       /\ c[n + 1] = "."
       /\ SubSeq(c, n + 2, Len(c)) \in [1..k -> UpperLetters]

\* the Response handle_analysis handed back for request r
AnalysisResponse(r) == IF sent[r] # <<>> THEN sent[r][1] ELSE req[r].pending

IsJsonFailure(resp, status) ==
  /\ resp.status = status
  /\ resp.contentType = JsonType
  /\ Len(resp.body) >= 4
  /\ SubSeq(resp.body, 1, 4) = <<"{", "\"success\"", ":", "false">>

\* C28: handle_analysis submits to the analysis service only when the first
\* code value, trimmed and upper-cased, is non-empty and has an accepted shape,
\* and then submits exactly that code once; otherwise it returns a JSON
\* Response with status 400 and success false and the service is not called;
\* when the service was called the Response is the service's result with
\* status 200 or, the call having failed, a JSON Response with status 500 and
\* success false.
C28_AnalysisValidation ==
  \A r \in Reqs :
    (Analysed(r) /\ (sent[r] # <<>> \/ req[r].pc = "send")) =>
      IF FirstCode(r) # <<>> /\ AcceptedShape(FirstCode(r))
      THEN /\ submitted[r] = <<FirstCode(r)>>
           /\ \/ AnalysisResponse(r) = JsonResponse(ValueData("handle_analysis"), 200)
              \/ /\ IsJsonFailure(AnalysisResponse(r), 500)
                 /\ errlog[r] # <<>>
      ELSE /\ submitted[r] = <<>>
           /\ IsJsonFailure(AnalysisResponse(r), 400)

C28_Witness ==
  /\ req["r1"].pc = "done" /\ Analysed("r1")
  /\ submitted["r1"] = << <<"H", "K", "0", "0", "7", "0", "0">> >>
  /\ IsJsonFailure(sent["r1"][1], 500)

C28_WitnessRejected ==
  /\ req["r1"].pc = "done" /\ Analysed("r1") /\ submitted["r1"] = <<>>
  /\ FirstCode("r1") = <<"T", ".", "S", "S", "S">>
  /\ IsJsonFailure(sent["r1"][1], 400)

\* the lower-case and upper-case forms of the letters of method names
LetterPairs ==
  { <<"g", "G">>, <<"e", "E">>, <<"t", "T">>, <<"p", "P">>, <<"o", "O">>, <<"s", "S">> }

BothCases(c) ==
  {c} \cup { q[1] : q \in {x \in LetterPairs : x[2] = c} }
      \cup { q[2] : q \in {x \in LetterPairs : x[1] = c} }

RECURSIVE CasingsOf(_)
\* every letter-casing of the text m
CasingsOf(m) ==
  IF m = <<>> THEN { <<>> }
  ELSE { <<c>> \o rest : c \in BothCases(Head(m)), rest \in CasingsOf(Tail(m)) }

IsUpperCase(m) == \A i \in 1..Len(m) : \A q \in LetterPairs : m[i] # q[1]

\* C29: method names are normalized to upper case on registration and on
\* lookup: after register(p, m', h), match(p, m'') returns the Route with
\* handler h for every letter-casing m'' of m', and that Route's method is the
\* upper-case casing of m'.
C29_MethodCaseInsensitive ==
  regLog # <<>> =>
    LET last == regLog[Len(regLog)]
    IN  \A m2 \in CasingsOf(last.method) :
          /\ Match(routes, last.path, m2) # None
          /\ Match(routes, last.path, m2).handler = last.handler
          /\ Match(routes, last.path, m2).method \in CasingsOf(last.method)
          /\ IsUpperCase(Match(routes, last.path, m2).method)

C29_Witness ==
  /\ Len(regLog) = 2
  /\ regLog[1] = [path |-> <<"/", "a">>, method |-> GET, handler |-> "h1"]
  /\ regLog[2] = [path |-> <<"/", "a">>, method |-> <<"g", "E", "T">>, handler |-> "h2"]
  /\ Match(routes, <<"/", "a">>, <<"G", "e", "t">>).handler = "h2"

\* C30: after any sequence of register calls, every Route stored at
\* _routes[p][m] has path p and method m, m is upper case, and no path key
\* maps to an empty method map.
C30_RouteTableStructure ==
  \A p \in DOMAIN routes :
    /\ DOMAIN routes[p] # {}
    /\ \A m \in DOMAIN routes[p] :
         /\ routes[p][m].path = p
         /\ routes[p][m].method = m
         /\ IsUpperCase(m)

C30_Witness ==
  /\ Len(regLog) = 3
  /\ DOMAIN routes = RegPaths
  /\ DOMAIN routes[<<"/", "a">>] = {GET, POST}
  /\ \E i \in 1..3 : regLog[i].method = <<"g", "e", "t">>
====
